---- MODULE Spec2Model ----
(***************************************************************************)
(* Model of track_process_resources.py: the sampling loop of main /        *)
(* render_live, one sampling pass (sample_once), the /proc readers         *)
(* (read_stat, read_io_counters), MetricAccumulator and the final report.  *)
(*                                                                         *)
(* Floats are modelled as exact rationals [n, d] in lowest terms with      *)
(* d > 0; float("inf") is [n |-> 1, d |-> 0] and float("-inf") is          *)
(* [n |-> -1, d |-> 0].  Python's None for an optional float is the        *)
(* record [n |-> 0, d |-> 0].  Timestamps are whole seconds.               *)
(***************************************************************************)
EXTENDS Integers, Sequences, FiniteSets, TLC

VARIABLES
    pc,            \* position of main: "start", "loop", "top", "pass", "sleep", "done", "crashed"
    interval,      \* args.interval
    duration,      \* args.duration
    live,          \* args.live
    STOP,          \* global STOP flag
    clock,         \* time.monotonic()
    start,         \* start = time.monotonic() taken in main
    now,           \* now of the pass in flight
    tracked,       \* tracked, the local of sample_once ({} while no pass is in flight)
    pending,       \* pids of tracked the for loop of sample_once has not reached yet
    stats_by_pid,  \* Dict[int, ProcessStats]
    prev_by_pid,   \* Dict[int, PrevSample]
    ret,           \* return value of main (-1 while main has not returned)
    report,        \* rows printed by the final report
    passes,        \* number of passes started (history)
    hist,          \* history: per pid, one entry per successful read_stat
    any_tracked,   \* history: some pass has had a pid in its tracked set
    late_passes,   \* history: number of passes begun with STOP already set
    acc,           \* accumulator workbench: accumulator fed in stream order
    acc2,          \* accumulator workbench: accumulator fed in permuted order
    stream,        \* accumulator workbench: values still to feed to acc
    stream2,       \* accumulator workbench: values still to feed to acc2
    fed,           \* accumulator workbench: values fed to acc
    fed2,          \* accumulator workbench: values fed to acc2
    acc_last       \* accumulator workbench: [before, value, after] of the last add

vars == <<pc, interval, duration, live, STOP, clock, start, now, tracked, pending,
          stats_by_pid, prev_by_pid, ret, report, passes, hist, any_tracked,
          late_passes, acc, acc2, stream, stream2, fed, fed2, acc_last>>

mainVars == <<pc, interval, duration, live, STOP, clock, start, now, tracked, pending,
              stats_by_pid, prev_by_pid, ret, report, passes, hist, any_tracked, late_passes>>

accVars == <<acc, acc2, stream, stream2, fed, fed2, acc_last>>

----------------------------------------------------------------------------
(* Bounds *)

MaxPasses == 3      \* passes started in one session
MaxReads == 3       \* successful reads of /proc/<pid>/stat in one session
MaxLen == 3         \* length of a value stream fed to the workbench accumulators

----------------------------------------------------------------------------
(* Rational arithmetic standing in for Python floats *)

RECURSIVE GCD(_, _)
GCD(a, b) == IF b = 0 THEN a ELSE GCD(b, a % b)

Abs(x) == IF x < 0 THEN -x ELSE x

\* n/d in lowest terms, d # 0
Rat(n, d) ==
    LET s == IF d < 0 THEN -1 ELSE 1
        g == GCD(Abs(n), Abs(d))
    IN  [n |-> (s * n) \div g, d |-> (s * d) \div g]

FromInt(i) == [n |-> i, d |-> 1]
Zero == FromInt(0)
PosInf == [n |-> 1, d |-> 0]
NegInf == [n |-> -1, d |-> 0]
None == [n |-> 0, d |-> 0]

RatAdd(a, b) == Rat(a.n * b.d + b.n * a.d, a.d * b.d)
RatMul(a, b) == Rat(a.n * b.n, a.d * b.d)
RatDiv(a, b) == Rat(a.n * b.d, a.d * b.n)
RatLT(a, b) == a.n * b.d < b.n * a.d
RatLE(a, b) == a.n * b.d <= b.n * a.d

\* Max0 without the clamp
Max0_NoClamp(x) == x

\* max(0.0, x): Python returns the first argument unless a later one is larger
Max0(x) == IF RatLT(Zero, x) THEN x ELSE Zero

----------------------------------------------------------------------------
(* MetricAccumulator *)

\* NewAccumulator with the minimum starting at 0.0
NewAccumulator_MinZero == [minimum |-> Zero, maximum |-> NegInf, total |-> Zero, count |-> 0]

NewAccumulator == [minimum |-> PosInf, maximum |-> NegInf, total |-> Zero, count |-> 0]

\* add with the maximum test in an elif of the minimum test
add_Elif(self, value) ==
    IF value = None THEN self
    ELSE [minimum |-> IF RatLT(value, self.minimum) THEN value ELSE self.minimum,
          maximum |-> IF ~RatLT(value, self.minimum) /\ RatLT(self.maximum, value)
                      THEN value ELSE self.maximum,
          total   |-> RatAdd(self.total, value),
          count   |-> self.count + 1]

add(self, value) ==
    IF value = None THEN self
    ELSE [minimum |-> IF RatLT(value, self.minimum) THEN value ELSE self.minimum,
          maximum |-> IF RatLT(self.maximum, value) THEN value ELSE self.maximum,
          total   |-> RatAdd(self.total, value),
          count   |-> self.count + 1]

as_tuple(self) ==
    IF self.count = 0 THEN <<Zero, Zero, Zero>>
    ELSE <<self.minimum, self.maximum, RatDiv(self.total, FromInt(self.count))>>

----------------------------------------------------------------------------
(* Contents of /proc/<pid>/stat and /proc/<pid>/io.                        *)
(* A file is [err, raw]: err is the errno open()/read() fails with ("" for *)
(* none, "DECODE" for bytes that are not UTF-8), raw the text as a         *)
(* sequence of tokens.  Tokens are separated by whitespace except around   *)
(* the parentheses that wrap the process name.                             *)

Num(n) == [k |-> "int", s |-> "", v |-> n]
Word(w) == [k |-> "word", s |-> w, v |-> 0]
LPAR == [k |-> "lpar", s |-> "(", v |-> 0]
RPAR == [k |-> "rpar", s |-> ")", v |-> 0]

Pids == {100, 200}

clk_tck == 100       \* os.sysconf("SC_CLK_TCK")
page_size == 4096    \* os.sysconf("SC_PAGE_SIZE")

\* str.find: first position of tok (1-based), 0 when missing
Find(raw, tok) ==
    LET at == {i \in 1..Len(raw) : raw[i] = tok}
    IN  IF at = {} THEN 0 ELSE CHOOSE i \in at : \A j \in at : i <= j

\* str.rfind: last position of tok (1-based), 0 when missing
RFind(raw, tok) ==
    LET at == {i \in 1..Len(raw) : raw[i] = tok}
    IN  IF at = {} THEN 0 ELSE CHOOSE i \in at : \A j \in at : j <= i

ReadNone == [tag |-> "none"]
ReadRaise == [tag |-> "raise"]

\* read_stat: [tag |-> "ok", name, ppid, cpu_ticks, rss_pages], None, or an
\* exception that leaves the function
read_stat(file) ==
    IF file.err \in {"ENOENT", "EACCES", "ESRCH"} THEN ReadNone
    ELSE IF file.err # "" THEN ReadRaise
    ELSE
        LET raw  == file.raw
            lpar == Find(raw, LPAR)
            rpar == RFind(raw, RPAR)
        IN  IF lpar = 0 \/ rpar = 0 \/ rpar <= lpar THEN ReadNone
            ELSE
                LET name == SubSeq(raw, lpar + 1, rpar - 1)
                    tail == SubSeq(raw, rpar + 1, Len(raw))
                IN  IF Len(tail) < 22 THEN ReadNone
                    ELSE IF \E i \in {2, 12, 13, 22} : tail[i].k # "int" THEN ReadNone
                    ELSE [tag |-> "ok", name |-> name, ppid |-> tail[2].v,
                          cpu_ticks |-> tail[12].v + tail[13].v,
                          rss_pages |-> tail[22].v]

IsDiskLine(line) == Len(line) > 0 /\ line[1] \in {Word("read_bytes:"), Word("write_bytes:")}
IsXferLine(line) == Len(line) > 0 /\ line[1] \in {Word("rchar:"), Word("wchar:")}

\* the for loop of read_io_counters over the lines from position i on
RECURSIVE IoLoop(_, _, _, _)
IoLoop(lines, i, disk_total, xfer_total) ==
    IF i > Len(lines) THEN [tag |-> "ok", disk |-> disk_total, xfer |-> xfer_total]
    ELSE LET line == lines[i]
         IN  IF IsDiskLine(line) \/ IsXferLine(line)
             THEN IF Len(line) < 2 THEN ReadRaise            \* IndexError
                  ELSE IF line[2].k # "int" THEN ReadNone    \* ValueError
                  ELSE IF IsDiskLine(line)
                       THEN IoLoop(lines, i + 1, disk_total + line[2].v, xfer_total)
                       ELSE IoLoop(lines, i + 1, disk_total, xfer_total + line[2].v)
             ELSE IoLoop(lines, i + 1, disk_total, xfer_total)

\* read_io_counters: [tag |-> "ok", disk, xfer], None, or an exception that
\* leaves the function
read_io_counters(file) ==
    IF file.err \in {"ENOENT", "EACCES", "ESRCH", "DECODE"} THEN ReadNone
    ELSE IF file.err # "" THEN ReadRaise
    ELSE IoLoop(file.raw, 1, 0, 0)

----------------------------------------------------------------------------
(* The files the kernel may present at a read *)

StatRaw(pid, name, ppid, utime, stime, rss) ==
    <<Num(pid), LPAR>> \o name \o <<RPAR>> \o
    [i \in 1..24 |-> CASE i = 1  -> Word("S")
                       [] i = 2  -> Num(ppid)
                       [] i = 12 -> Num(utime)
                       [] i = 13 -> Num(stime)
                       [] i = 22 -> Num(rss)
                       [] OTHER  -> Num(0)]

\* pid 100 is seen under two names and parents, with three readings of
\* (utime, stime); pid 200 always reads the same
GoodStat(pid) ==
    IF pid = 100
    THEN { [err |-> "", raw |-> StatRaw(pid, <<Word("a")>>, 1, 0, 0, 1)],
           [err |-> "", raw |-> StatRaw(pid, <<Word("a")>>, 1, 50, 0, 1)],
           [err |-> "", raw |-> StatRaw(pid, <<Word("b"), RPAR, Word("c")>>, 2, 50, 100, 2)] }
    ELSE { [err |-> "", raw |-> StatRaw(pid, <<Word("d")>>, 1, 20, 10, 3)] }

\* files read_stat cannot use; the one that is not UTF-8 is met on pid 200
BadStat(pid) ==
    LET full == StatRaw(pid, <<Word("a")>>, 1, 50, 0, 1)
    IN  { [err |-> "ENOENT", raw |-> <<>>],
          [err |-> "EACCES", raw |-> <<>>],
          [err |-> IF pid = 200 THEN "DECODE" ELSE "ESRCH", raw |-> <<>>],
          [err |-> "", raw |-> <<>>],
          [err |-> "", raw |-> SubSeq(full, 1, Len(full) - 3)],            \* 21 fields after the name
          [err |-> "", raw |-> <<Num(pid)>> \o SubSeq(full, 5, Len(full))], \* no parentheses
          [err |-> "", raw |-> [full EXCEPT ![16] = Word("x")]] }           \* utime not a number

StatFiles == [pid \in Pids |-> GoodStat(pid) \cup BadStat(pid)]

IoRaw(rchar, wchar, read_bytes, write_bytes) ==
    << <<Word("rchar:"), Num(rchar)>>,
       <<Word("wchar:"), Num(wchar)>>,
       <<Word("syscr:"), Num(7)>>,
       <<Word("syscw:"), Num(7)>>,
       <<Word("read_bytes:"), Num(read_bytes)>>,
       <<Word("write_bytes:"), Num(write_bytes)>>,
       <<Word("cancelled_write_bytes:"), Num(0)>> >>

IoQuads == { <<2000, 0, 600, 400>>, <<2000, 600, 1000, 400>> }

GoodIo == { [err |-> "", raw |-> IoRaw(q[1], q[2], q[3], q[4])] : q \in IoQuads }

\* files read_io_counters cannot use; the one cut after a key is met on pid 200
BadIo(pid) ==
    LET full == IoRaw(2000, 0, 600, 400)
    IN  { [err |-> "EACCES", raw |-> <<>>],
          [err |-> "DECODE", raw |-> <<>>],
          [err |-> "", raw |-> [full EXCEPT ![5] = <<Word("read_bytes:"), Word("x")>>]],
          [err |-> "", raw |-> [full EXCEPT ![5] = IF pid = 200 THEN <<Word("read_bytes:")>>
                                                   ELSE <<Word("read_bytes:"), Word("-")>>]] }

\* pid 200 always reads the same I/O counters
IoFiles ==
    [pid \in Pids |->
        (IF pid = 100 THEN GoodIo ELSE {[err |-> "", raw |-> IoRaw(10, 20, 30, 40)]}) \cup BadIo(pid)]

\* what read_stat returns for the files pid may present
StatReads == [pid \in Pids |-> {read_stat(f) : f \in StatFiles[pid]}]

\* what read_io_counters returns for the files pid may present
IoReads == [pid \in Pids |-> {read_io_counters(f) : f \in IoFiles[pid]}]

\* successful stat reads so far
RECURSIVE TotalLen(_, _)
TotalLen(h, S) ==
    IF S = {} THEN 0
    ELSE LET p == CHOOSE x \in S : TRUE IN Len(h[p]) + TotalLen(h, S \ {p})

\* what read_stat may return for pid now: processes are readable MaxReads
\* times in all
PresentedStat(pid, h) ==
    IF TotalLen(h, Pids) < MaxReads THEN StatReads[pid]
    ELSE {r \in StatReads[pid] : r.tag # "ok"}

NotRead == [tag |-> "skip"]

\* what read_io_counters may return for pid; it is called only after a
\* successful read_stat (line 232)
PresentedIo(pid, stat) == IF stat.tag = "ok" THEN IoReads[pid] ELSE {NotRead}

----------------------------------------------------------------------------
(* sample_once: the body of `for pid in tracked` *)

Missing == [absent |-> TRUE]          \* dict.get(pid) returning None

Get(dict, pid) == IF pid \in DOMAIN dict THEN dict[pid] ELSE Missing

NewProcessStats(pid, name, ppid, t) ==
    [pid |-> pid, name |-> name, ppid |-> ppid, first_seen |-> t, last_seen |-> t,
     cpu |-> NewAccumulator, mem |-> NewAccumulator,
     disk |-> NewAccumulator, xfer |-> NewAccumulator,
     current_cpu |-> Zero, current_mem |-> Zero,
     current_disk |-> Zero, current_xfer |-> Zero]

\* LookupRecord returning a registered record as it is
LookupRecord_NoTouch(stats, pid, stat, t) ==
    IF Get(stats, pid) = Missing
    THEN NewProcessStats(pid, stat.name, stat.ppid, t)
    ELSE stats[pid]

\* lines 237-248: look the record up, create it or touch last_seen
LookupRecord(stats, pid, stat, t) ==
    IF Get(stats, pid) = Missing
    THEN NewProcessStats(pid, stat.name, stat.ppid, t)
    ELSE [stats[pid] EXCEPT !.last_seen = t]

\* line 258
CpuPct(cpu_ticks, prev, dt) ==
    RatMul(RatDiv(RatDiv(FromInt(cpu_ticks - prev.cpu_ticks), FromInt(clk_tck)), FromInt(dt)),
           FromInt(100))

\* lines 260 and 262
BytesPerSec(total, prev_bytes, dt) == RatDiv(FromInt(total - prev_bytes), FromInt(dt))

\* ComputeRates reporting rates of 0 when no time has passed
ComputeRates_ZeroOnStall(prev, t, cpu_ticks, io) ==
    IF prev = Missing
    THEN [cpu_pct |-> None, disk_bps |-> None, xfer_bps |-> None]
    ELSE IF t - prev.timestamp > 0
    THEN LET dt == t - prev.timestamp
         IN  [cpu_pct  |-> CpuPct(cpu_ticks, prev, dt),
              disk_bps |-> IF io.tag = "ok" THEN BytesPerSec(io.disk, prev.disk_bytes, dt) ELSE None,
              xfer_bps |-> IF io.tag = "ok" THEN BytesPerSec(io.xfer, prev.xfer_bytes, dt) ELSE None]
    ELSE [cpu_pct |-> Zero, disk_bps |-> Zero, xfer_bps |-> Zero]

\* ComputeRates reporting a rate of 0 when there is no previous sample
ComputeRates_FirstIsZero(prev, t, cpu_ticks, io) ==
    IF prev = Missing
    THEN [cpu_pct |-> Zero, disk_bps |-> Zero, xfer_bps |-> Zero]
    ELSE IF t - prev.timestamp > 0
    THEN LET dt == t - prev.timestamp
         IN  [cpu_pct  |-> CpuPct(cpu_ticks, prev, dt),
              disk_bps |-> IF io.tag = "ok" THEN BytesPerSec(io.disk, prev.disk_bytes, dt) ELSE None,
              xfer_bps |-> IF io.tag = "ok" THEN BytesPerSec(io.xfer, prev.xfer_bytes, dt) ELSE None]
    ELSE [cpu_pct |-> None, disk_bps |-> None, xfer_bps |-> None]

\* lines 250-262: the three optional rates, before clamping
ComputeRates(prev, t, cpu_ticks, io) ==
    IF prev # Missing /\ t - prev.timestamp > 0
    THEN LET dt == t - prev.timestamp
         IN  [cpu_pct  |-> CpuPct(cpu_ticks, prev, dt),
              disk_bps |-> IF io.tag = "ok" THEN BytesPerSec(io.disk, prev.disk_bytes, dt) ELSE None,
              xfer_bps |-> IF io.tag = "ok" THEN BytesPerSec(io.xfer, prev.xfer_bytes, dt) ELSE None]
    ELSE [cpu_pct |-> None, disk_bps |-> None, xfer_bps |-> None]

\* Clamp feeding 0 for an absent rate, as the current value does
Clamp_AbsentIsZero(rate) == IF rate # None THEN Max0(rate) ELSE Zero

\* lines 264-280: clamp a present rate at 0
Clamp(rate) == IF rate # None THEN Max0(rate) ELSE None

\* lines 264-280: the "current" value of a rate
Current(rate) == IF rate # None THEN Max0(rate) ELSE Zero

\* UpdateRecord recording memory only along with a cpu rate
UpdateRecord_MemWithRate(record, rates, rss_bytes) ==
    [record EXCEPT
        !.current_cpu  = Current(rates.cpu_pct),
        !.current_disk = Current(rates.disk_bps),
        !.current_xfer = Current(rates.xfer_bps),
        !.current_mem  = FromInt(rss_bytes),
        !.cpu  = add(@, Clamp(rates.cpu_pct)),
        !.mem  = add(@, IF rates.cpu_pct # None THEN FromInt(rss_bytes) ELSE None),
        !.disk = add(@, Clamp(rates.disk_bps)),
        !.xfer = add(@, Clamp(rates.xfer_bps))]

\* lines 264-286: current values and accumulators of the record
UpdateRecord(record, rates, rss_bytes) ==
    [record EXCEPT
        !.current_cpu  = Current(rates.cpu_pct),
        !.current_disk = Current(rates.disk_bps),
        !.current_xfer = Current(rates.xfer_bps),
        !.current_mem  = FromInt(rss_bytes),
        !.cpu  = add(@, Clamp(rates.cpu_pct)),
        !.mem  = add(@, FromInt(rss_bytes)),
        !.disk = add(@, Clamp(rates.disk_bps)),
        !.xfer = add(@, Clamp(rates.xfer_bps))]

\* NextPrev keeping the old cpu_ticks when the I/O read failed
NextPrev_KeepTicks(prev, t, cpu_ticks, io) ==
    IF io.tag = "ok"
    THEN [cpu_ticks |-> cpu_ticks, disk_bytes |-> io.disk, xfer_bytes |-> io.xfer, timestamp |-> t]
    ELSE IF prev = Missing
    THEN [cpu_ticks |-> cpu_ticks, disk_bytes |-> 0, xfer_bytes |-> 0, timestamp |-> t]
    ELSE [cpu_ticks |-> prev.cpu_ticks, disk_bytes |-> prev.disk_bytes,
          xfer_bytes |-> prev.xfer_bytes, timestamp |-> t]

\* NextPrev storing byte counters of 0 whenever the I/O read failed
NextPrev_ZeroOnFail(prev, t, cpu_ticks, io) ==
    IF io.tag = "ok"
    THEN [cpu_ticks |-> cpu_ticks, disk_bytes |-> io.disk, xfer_bytes |-> io.xfer, timestamp |-> t]
    ELSE [cpu_ticks |-> cpu_ticks, disk_bytes |-> 0, xfer_bytes |-> 0, timestamp |-> t]

\* lines 288-308: the previous sample stored for the next pass
NextPrev(prev, t, cpu_ticks, io) ==
    IF io.tag = "ok"
    THEN [cpu_ticks |-> cpu_ticks, disk_bytes |-> io.disk, xfer_bytes |-> io.xfer, timestamp |-> t]
    ELSE IF prev = Missing
    THEN [cpu_ticks |-> cpu_ticks, disk_bytes |-> 0, xfer_bytes |-> 0, timestamp |-> t]
    ELSE [cpu_ticks |-> cpu_ticks, disk_bytes |-> prev.disk_bytes,
          xfer_bytes |-> prev.xfer_bytes, timestamp |-> t]

\* Iteration forgetting the record of a pid it could not read
Iteration_DropOnMiss(stats, prevs, pid, stat, io, t) ==
    IF stat.tag = "none"
    THEN [stats |-> [q \in DOMAIN stats \ {pid} |-> stats[q]], prevs |-> prevs]
    ELSE LET prev   == Get(prevs, pid)
             record == LookupRecord(stats, pid, stat, t)
             rates  == ComputeRates(prev, t, stat.cpu_ticks, io)
         IN  [stats |-> (pid :> UpdateRecord(record, rates, stat.rss_pages * page_size)) @@ stats,
              prevs |-> (pid :> NextPrev(prev, t, stat.cpu_ticks, io)) @@ prevs]

\* Iteration zeroing the current rates of a pid it could not read
Iteration_ZeroOnMiss(stats, prevs, pid, stat, io, t) ==
    IF stat.tag = "none"
    THEN [stats |-> IF pid \in DOMAIN stats
                    THEN [stats EXCEPT ![pid].current_cpu = Zero, ![pid].current_disk = Zero,
                                       ![pid].current_xfer = Zero]
                    ELSE stats,
          prevs |-> prevs]
    ELSE LET prev   == Get(prevs, pid)
             record == LookupRecord(stats, pid, stat, t)
             rates  == ComputeRates(prev, t, stat.cpu_ticks, io)
         IN  [stats |-> (pid :> UpdateRecord(record, rates, stat.rss_pages * page_size)) @@ stats,
              prevs |-> (pid :> NextPrev(prev, t, stat.cpu_ticks, io)) @@ prevs]

\* lines 228-308: what one iteration of the for loop does to the two tables,
\* given what read_stat and read_io_counters returned
Iteration(stats, prevs, pid, stat, io, t) ==
    IF stat.tag = "none" THEN [stats |-> stats, prevs |-> prevs]
    ELSE LET prev   == Get(prevs, pid)
             record == LookupRecord(stats, pid, stat, t)
             rates  == ComputeRates(prev, t, stat.cpu_ticks, io)
         IN  [stats |-> (pid :> UpdateRecord(record, rates, stat.rss_pages * page_size)) @@ stats,
              prevs |-> (pid :> NextPrev(prev, t, stat.cpu_ticks, io)) @@ prevs]

\* lines 283-286: the four values handed to the accumulators
FedValues(prev, t, stat, io) ==
    LET rates == ComputeRates(prev, t, stat.cpu_ticks, io)
    IN  [cpu  |-> Clamp(rates.cpu_pct),
         mem  |-> FromInt(stat.rss_pages * page_size),
         disk |-> Clamp(rates.disk_bps),
         xfer |-> Clamp(rates.xfer_bps)]

\* the entry the history keeps of one successful read_stat: the time, what
\* was read, the previous sample that was stored, the values fed
HistEntry(t, stat, io, prev) ==
    [t |-> t, cpu_ticks |-> stat.cpu_ticks, rss_pages |-> stat.rss_pages,
     name |-> stat.name, ppid |-> stat.ppid,
     io |-> io.tag = "ok",
     disk |-> IF io.tag = "ok" THEN io.disk ELSE 0,
     xfer |-> IF io.tag = "ok" THEN io.xfer ELSE 0,
     prev |-> prev,
     fed |-> FedValues(prev, t, stat, io)]

\* one iteration of the for loop (lines 227-308) for pid, read_stat(pid)
\* returning stat and read_io_counters(pid) returning io; an exception leaves
\* sample_once and main
SamplePid(pid, stat, io) ==
    /\ pc = "pass"
    /\ pid \in pending
    /\ LET left == pending \ {pid}
           out  == Iteration(stats_by_pid, prev_by_pid, pid, stat, io, now)
       IN  IF stat.tag = "raise" \/ io.tag = "raise"
           THEN /\ pc' = "crashed"
                /\ UNCHANGED <<tracked, pending, stats_by_pid, prev_by_pid, hist>>
           ELSE /\ pending' = left
                /\ pc' = IF left = {} THEN "sleep" ELSE "pass"
                /\ tracked' = IF left = {} THEN {} ELSE tracked
                /\ stats_by_pid' = out.stats
                /\ prev_by_pid' = out.prevs
                /\ hist' = IF stat.tag = "ok"
                           THEN [hist EXCEPT ![pid] =
                                   Append(@, HistEntry(now, stat, io, Get(prev_by_pid, pid)))]
                           ELSE hist
    /\ UNCHANGED <<interval, duration, live, STOP, clock, start, now, ret, report,
                   passes, any_tracked, late_passes>>
    /\ UNCHANGED accVars

----------------------------------------------------------------------------
(* main and render_live *)

\* the command lines: (interval, duration, live)
Configs == { <<0, 0, FALSE>>, <<-1, 2, TRUE>>, <<1, 2, FALSE>>, <<1, 0, TRUE>> }

\* PastEnd with the duration ignored
PastEnd_Never(t) == FALSE

\* end_at is not None and now >= end_at
PastEnd(t) == duration > 0 /\ t >= start + duration

\* Configure entering the loop whatever the interval is
Configure_NoCheck ==
    /\ pc = "start"
    /\ start' = clock
    /\ pc' = "loop"
    /\ UNCHANGED <<interval, duration, live, STOP, clock, now, tracked, pending,
                   stats_by_pid, prev_by_pid, ret, report, passes, hist, any_tracked, late_passes>>
    /\ UNCHANGED accVars

\* lines 379-393: validate the interval, install the handlers, take start
Configure ==
    /\ pc = "start"
    /\ IF interval <= 0
       THEN /\ ret' = 2
            /\ pc' = "done"
            /\ UNCHANGED start
       ELSE /\ start' = clock
            /\ pc' = "loop"
            /\ UNCHANGED ret
    /\ UNCHANGED <<interval, duration, live, STOP, clock, now, tracked, pending,
                   stats_by_pid, prev_by_pid, report, passes, hist, any_tracked, late_passes>>
    /\ UNCHANGED accVars

\* _handle_signal
HandleSignal ==
    /\ pc \in {"loop", "top", "pass", "sleep"}
    /\ ~STOP
    /\ STOP' = TRUE
    /\ UNCHANGED <<pc, interval, duration, live, clock, start, now, tracked, pending,
                   stats_by_pid, prev_by_pid, ret, report, passes, hist, any_tracked, late_passes>>
    /\ UNCHANGED accVars

\* the sorted() of line 434 over a set of pids
RECURSIVE SortedSeq(_)
SortedSeq(S) ==
    IF S = {} THEN <<>>
    ELSE LET m == CHOOSE x \in S : \A y \in S : x <= y
         IN  <<m>> \o SortedSeq(S \ {m})

\* f"{x:.2f}": x in hundredths, rounded half to even
Fmt2(x) ==
    LET q == (100 * x.n) \div x.d
        r == 100 * x.n - q * x.d
    IN  IF 2 * r < x.d THEN q
        ELSE IF 2 * r > x.d THEN q + 1
        ELSE IF q % 2 = 0 THEN q ELSE q + 1

fmt_triplet(values) == <<Fmt2(values[1]), Fmt2(values[2]), Fmt2(values[3])>>

MiB == 1024 * 1024

\* name[:20]
Trunc20(name) == SubSeq(name, 1, IF Len(name) < 20 THEN Len(name) ELSE 20)

\* lines 435-454: one printed row
ReportRow(rec) ==
    LET m == as_tuple(rec.mem)
    IN  [pid |-> rec.pid, name |-> Trunc20(rec.name), ppid |-> rec.ppid,
         cpu  |-> fmt_triplet(as_tuple(rec.cpu)),
         mem  |-> fmt_triplet(<<RatDiv(m[1], FromInt(MiB)), RatDiv(m[2], FromInt(MiB)),
                                RatDiv(m[3], FromInt(MiB))>>),
         disk |-> fmt_triplet(as_tuple(rec.disk)),
         xfer |-> fmt_triplet(as_tuple(rec.xfer))]

\* FinalReport returning 0 with nothing collected
FinalReport_AlwaysZero ==
    /\ pc' = "done"
    /\ ret' = 0
    /\ report' = LET order == SortedSeq(DOMAIN stats_by_pid)
                 IN  [i \in 1..Len(order) |-> ReportRow(stats_by_pid[order[i]])]

\* lines 427-456: what main does once the loop is left; nothing of it reads
\* STOP, so it runs as one step
FinalReport ==
    /\ pc' = "done"
    /\ IF DOMAIN stats_by_pid = {}
       THEN /\ ret' = 1
            /\ report' = <<>>
       ELSE /\ ret' = 0
            /\ report' = LET order == SortedSeq(DOMAIN stats_by_pid)
                         IN  [i \in 1..Len(order) |-> ReportRow(stats_by_pid[order[i]])]

\* LoopTest going on whether the flag is set or not
LoopTest_NoStopCheck ==
    /\ pc = "loop"
    /\ pc' = "top"
    /\ UNCHANGED <<interval, duration, live, STOP, clock, start, now, tracked, pending,
                   stats_by_pid, prev_by_pid, ret, report, passes, hist, any_tracked,
                   late_passes>>
    /\ UNCHANGED accVars

\* `while not STOP` (lines 410, 326) finding the flag clear
LoopTest ==
    /\ pc = "loop"
    /\ ~STOP
    /\ pc' = "top"
    /\ UNCHANGED <<interval, duration, live, STOP, clock, start, now, tracked, pending,
                   stats_by_pid, prev_by_pid, ret, report, passes, hist, any_tracked,
                   late_passes>>
    /\ UNCHANGED accVars

\* the loop is left: `while not STOP` finds the flag set, or now is taken
\* and is past end_at (lines 411-413, 327-329); the report follows
LoopExit ==
    /\ \/ pc = "loop" /\ STOP
       \/ pc = "top" /\ PastEnd(clock)
    /\ now' = IF pc = "top" THEN clock ELSE now
    /\ FinalReport
    /\ UNCHANGED <<interval, duration, live, STOP, clock, start, tracked, pending,
                   stats_by_pid, prev_by_pid, passes, hist, any_tracked, late_passes>>
    /\ UNCHANGED accVars

\* after the loop test a pass starts: now is taken, is not past end_at, and
\* sample_once resolves the tracked set (lines 223-225)
StartPass(tracked_set) ==
    /\ pc = "top"
    /\ ~PastEnd(clock)
    /\ passes < MaxPasses
    /\ now' = clock
    /\ passes' = passes + 1
    /\ tracked' = tracked_set
    /\ pending' = tracked_set
    /\ pc' = IF tracked_set = {} THEN "sleep" ELSE "pass"
    /\ any_tracked' = (any_tracked \/ tracked_set # {})
    /\ late_passes' = IF STOP THEN late_passes + 1 ELSE late_passes
    /\ UNCHANGED <<interval, duration, live, STOP, clock, start,
                   stats_by_pid, prev_by_pid, ret, report, hist>>
    /\ UNCHANGED accVars

\* after the pass the loop sleeps (lines 371-373, 423-425) while the clock
\* moves on by d
Sleep(d) ==
    /\ pc = "sleep"
    /\ pc' = "loop"
    /\ clock' = clock + d
    /\ UNCHANGED <<interval, duration, live, STOP, start, now, tracked, pending,
                   stats_by_pid, prev_by_pid, ret, report, passes, hist, any_tracked, late_passes>>
    /\ UNCHANGED accVars

\* live mode: the key polled after the pass is q or Q (lines 367-369), the
\* loop is left and the report follows
Quit ==
    /\ pc = "sleep"
    /\ live
    /\ FinalReport
    /\ UNCHANGED <<interval, duration, live, STOP, clock, start, now, tracked, pending,
                   stats_by_pid, prev_by_pid, passes, hist, any_tracked, late_passes>>
    /\ UNCHANGED accVars

----------------------------------------------------------------------------

NoAdd == [before |-> NewAccumulator, value |-> None, after |-> NewAccumulator]

Init ==
    /\ pc = "start"
    /\ \E c \in Configs : interval = c[1] /\ duration = c[2] /\ live = c[3]
    /\ STOP = FALSE
    /\ clock = 0
    /\ start = 0
    /\ now = 0
    /\ tracked = {}
    /\ pending = {}
    /\ stats_by_pid = <<>>
    /\ prev_by_pid = <<>>
    /\ ret = -1
    /\ report = <<>>
    /\ passes = 0
    /\ hist = [p \in Pids |-> <<>>]
    /\ any_tracked = FALSE
    /\ late_passes = 0
    /\ acc = NewAccumulator
    /\ acc2 = NewAccumulator
    /\ stream = <<>>
    /\ stream2 = <<>>
    /\ fed = <<>>
    /\ fed2 = <<>>
    /\ acc_last = NoAdd

Next ==
    \/ Configure
    \/ HandleSignal
    \/ LoopTest
    \/ LoopExit
    \/ \E tracked_set \in SUBSET Pids : StartPass(tracked_set)
    \/ \E pid \in Pids : \E stat \in PresentedStat(pid, hist) :
          \E io \in PresentedIo(pid, stat) : SamplePid(pid, stat, io)
    \/ \E d \in 0..1 : Sleep(d)
    \/ Quit

Spec == Init /\ [][Next]_vars

\* the steps of main under a clock that keeps advancing: sleep_left =
\* interval - elapsed is slept in full (lines 423-425, 371-373), so the next
\* pass takes now at least interval later
MainNext ==
    \/ Configure
    \/ LoopTest
    \/ LoopExit
    \/ \E tracked_set \in SUBSET Pids : StartPass(tracked_set)
    \/ \E pid \in Pids : \E stat \in PresentedStat(pid, hist) :
          \E io \in PresentedIo(pid, stat) : SamplePid(pid, stat, io)
    \/ Sleep(interval)
    \/ Quit

LiveNext == HandleSignal \/ MainNext

\* a step of main moves its position or takes a pid off the pass; every
\* step of MainNext does, and the signal handler's does not
MainStep ==
    /\ pc \in {"start", "loop", "top", "pass", "sleep"}
    /\ pc' \in {"loop", "top", "pass", "sleep", "done", "crashed"}
    /\ pending' \in SUBSET Pids

\* main keeps running: no step of it is put off for ever
LiveSpec == Init /\ [][LiveNext]_vars /\ WF_<<pc, pending>>(MainStep)

----------------------------------------------------------------------------
(* MetricAccumulator on its own: a stream of optional values is fed to acc, *)
(* and a rearrangement of it, absent values dropped or inserted, to acc2.   *)

AccValues == {None, Zero, FromInt(50), Rat(200, 3)}

Streams == UNION {[1..n -> AccValues] : n \in 0..MaxLen}

Occurrences(s, v) == Cardinality({i \in DOMAIN s : s[i] = v})

\* s2 holds the present values of s1, each as often, in any order
Rearranged(s1, s2) == \A v \in AccValues \ {None} : Occurrences(s1, v) = Occurrences(s2, v)

AccInit ==
    /\ pc = "bench"
    /\ interval = 1 /\ duration = 0 /\ live = FALSE
    /\ STOP = FALSE
    /\ clock = 0 /\ start = 0 /\ now = 0
    /\ tracked = {}
    /\ pending = {}
    /\ stats_by_pid = <<>>
    /\ prev_by_pid = <<>>
    /\ ret = -1
    /\ report = <<>>
    /\ passes = 0
    /\ hist = [p \in Pids |-> <<>>]
    /\ any_tracked = FALSE
    /\ late_passes = 0
    /\ acc = NewAccumulator
    /\ acc2 = NewAccumulator
    /\ stream \in Streams
    /\ stream2 \in {s \in Streams : Rearranged(stream, s)}
    /\ fed = <<>>
    /\ fed2 = <<>>
    /\ acc_last = NoAdd

\* acc.add(value) for the next value of the stream
FeedFirst ==
    /\ stream # <<>>
    /\ acc' = add(acc, Head(stream))
    /\ stream' = Tail(stream)
    /\ fed' = Append(fed, Head(stream))
    /\ acc_last' = [before |-> acc, value |-> Head(stream), after |-> acc']
    /\ UNCHANGED <<acc2, stream2, fed2>>
    /\ UNCHANGED mainVars

\* acc2.add(value) for the next value of the rearranged stream
FeedSecond ==
    /\ stream2 # <<>>
    /\ acc2' = add(acc2, Head(stream2))
    /\ stream2' = Tail(stream2)
    /\ fed2' = Append(fed2, Head(stream2))
    /\ acc_last' = [before |-> acc2, value |-> Head(stream2), after |-> acc2']
    /\ UNCHANGED <<acc, stream, fed>>
    /\ UNCHANGED mainVars

AccNext == FeedFirst \/ FeedSecond

AccSpec == AccInit /\ [][AccNext]_vars

----------------------------------------------------------------------------
(* Properties *)

\* the rate a counter that moved by delta over dt seconds should give
ExpectRate(delta, dt) == IF delta < 0 THEN Zero ELSE Rat(delta, dt)

Last(seq) == seq[Len(seq)]

\* C1: when a pid's I/O counters are read, then fail to be read (stat still
\* read), then are read again, at strictly increasing times, the disk and
\* transfer rates recorded at the third read are the byte deltas since the
\* first read divided by the time since the first read.
C1_RateAgainstLastIoRead ==
    \A pid \in Pids : \A k \in 3..Len(hist[pid]) :
        LET a == hist[pid][k - 2]
            b == hist[pid][k - 1]
            c == hist[pid][k]
        IN  (a.io /\ ~b.io /\ c.io /\ a.t < b.t /\ b.t < c.t)
            => /\ c.fed.disk = ExpectRate(c.disk - a.disk, c.t - a.t)
               /\ c.fed.xfer = ExpectRate(c.xfer - a.xfer, c.t - a.t)

\* C2: every recorded rate is >= 0; with a previous sample and dt > 0 the
\* rate is (curr - prev)/dt (cpu: /ticks_per_second*100) when the counter did
\* not decrease and exactly 0 when it did, both as the value fed to the
\* accumulator and as the current value of the record.
C2_RatesNonNegative ==
    \A pid \in Pids : \A k \in 1..Len(hist[pid]) :
        LET e   == hist[pid][k]
            dt  == e.t - e.prev.timestamp
            cpu == ExpectRate((e.cpu_ticks - e.prev.cpu_ticks) * 100, clk_tck * dt)
            dsk == ExpectRate(e.disk - e.prev.disk_bytes, dt)
            xfr == ExpectRate(e.xfer - e.prev.xfer_bytes, dt)
            r   == stats_by_pid[pid]
        IN  /\ \A m \in {"cpu", "disk", "xfer"} : e.fed[m] # None => RatLE(Zero, e.fed[m])
            /\ (e.prev # Missing /\ dt > 0) =>
                  /\ e.fed.cpu = cpu
                  /\ e.io => (e.fed.disk = dsk /\ e.fed.xfer = xfr)
            /\ k = Len(hist[pid]) =>
                  /\ r.current_cpu  = (IF e.fed.cpu = None THEN Zero ELSE e.fed.cpu)
                  /\ r.current_disk = (IF e.fed.disk = None THEN Zero ELSE e.fed.disk)
                  /\ r.current_xfer = (IF e.fed.xfer = None THEN Zero ELSE e.fed.xfer)
                  /\ \A f \in {"current_cpu", "current_disk", "current_xfer"} : RatLE(Zero, r[f])
                  /\ \A m \in {"cpu", "disk", "xfer"} :
                        r[m].count > 0 => RatLE(Zero, r[m].minimum)

\* a read with dt > 0 where cpu_ticks went down and the disk counter went up
C2_Witness ==
    \E pid \in Pids :
        /\ Len(hist[pid]) >= 2
        /\ LET e == Last(hist[pid])
           IN  /\ e.t > e.prev.timestamp
               /\ e.cpu_ticks < e.prev.cpu_ticks
               /\ e.io
               /\ e.disk > e.prev.disk_bytes
               /\ stats_by_pid[pid].current_cpu = Zero
               /\ stats_by_pid[pid].current_disk # Zero
               /\ stats_by_pid[pid].cpu.count = Len(hist[pid]) - 1

\* the successful reads of pid were at strictly increasing times
Increasing(pid) == \A k \in 2..Len(hist[pid]) : hist[pid][k - 1].t < hist[pid][k].t

\* the cpu rate of the interval that ends at the k-th read, k >= 2
IntervalCpu(pid, k) ==
    ExpectRate((hist[pid][k].cpu_ticks - hist[pid][k - 1].cpu_ticks) * 100,
               clk_tck * (hist[pid][k].t - hist[pid][k - 1].t))

RECURSIVE SumIntervalCpu(_, _)
SumIntervalCpu(pid, k) == IF k < 2 THEN Zero ELSE RatAdd(SumIntervalCpu(pid, k - 1), IntervalCpu(pid, k))

\* C3: after N >= 1 successful reads at strictly increasing times the cpu
\* accumulator holds the N-1 interval rates: count N-1, their minimum,
\* maximum and mean; ticks (0,50,150) at t=0,1,2 give count 2, (50,100,75).
C3_CpuAccumulatorHoldsIntervals ==
    \A pid \in Pids :
        LET N == Len(hist[pid]) IN
        (N >= 1 /\ Increasing(pid)) =>
            /\ pid \in DOMAIN stats_by_pid
            /\ LET a == stats_by_pid[pid].cpu
               IN  /\ a.count = N - 1
                   /\ N >= 2 =>
                        /\ \A k \in 2..N : RatLE(a.minimum, IntervalCpu(pid, k))
                                           /\ RatLE(IntervalCpu(pid, k), a.maximum)
                        /\ \E k \in 2..N : a.minimum = IntervalCpu(pid, k)
                        /\ \E k \in 2..N : a.maximum = IntervalCpu(pid, k)
                        /\ a.total = SumIntervalCpu(pid, N)
                        /\ as_tuple(a)[3] = Rat(a.total.n, a.total.d * (N - 1))
                   /\ (/\ N = 3
                       /\ [k \in 1..3 |-> hist[pid][k].cpu_ticks] = <<0, 50, 150>>
                       /\ [k \in 1..3 |-> hist[pid][k].t] = <<0, 1, 2>>)
                      => /\ a.count = 2
                         /\ as_tuple(a) = <<FromInt(50), FromInt(100), FromInt(75)>>

\* ticks (0,50,150) were read at t=0,1,2
C3_Witness ==
    \E pid \in Pids :
        /\ Len(hist[pid]) = 3
        /\ [k \in 1..3 |-> hist[pid][k].cpu_ticks] = <<0, 50, 150>>
        /\ [k \in 1..3 |-> hist[pid][k].t] = <<0, 1, 2>>
        /\ stats_by_pid[pid].cpu.count = 2

\* C4: a pid read successfully exactly once has count 0 on cpu, disk and
\* xfer, each summarizing as (0,0,0), count 1 on mem holding the memory read,
\* current rates 0 and current memory the value read.
C4_SingleRead ==
    \A pid \in Pids :
        Len(hist[pid]) = 1 =>
            /\ pid \in DOMAIN stats_by_pid
            /\ LET r   == stats_by_pid[pid]
                   mem == FromInt(hist[pid][1].rss_pages * page_size)
               IN  /\ \A m \in {"cpu", "disk", "xfer"} :
                          r[m].count = 0 /\ as_tuple(r[m]) = <<Zero, Zero, Zero>>
                   /\ r.mem.count = 1
                   /\ as_tuple(r.mem) = <<mem, mem, mem>>
                   /\ r.current_cpu = Zero /\ r.current_disk = Zero /\ r.current_xfer = Zero
                   /\ r.current_mem = mem

\* a pid was read once, I/O counters included, and a later pass has gone by
C4_Witness ==
    \E pid \in Pids :
        /\ Len(hist[pid]) = 1
        /\ hist[pid][1].io
        /\ hist[pid][1].t < now
        /\ stats_by_pid[pid].mem.count = 1

\* C5: the iteration of a pass for a pid whose read_stat returns absent
\* leaves the registry and the previous-sample table as they were (no record
\* created, none changed), and so does a pass whose tracked set is empty.
C5_AbsentLeavesUnchanged ==
    [][ /\ \A pid \in Pids :
             (pc = "pass" /\ pid \in pending /\ pid \notin pending' /\ hist'[pid] = hist[pid])
             => /\ Get(stats_by_pid', pid) = Get(stats_by_pid, pid)
                /\ Get(prev_by_pid', pid) = Get(prev_by_pid, pid)
                /\ stats_by_pid' = stats_by_pid
                /\ prev_by_pid' = prev_by_pid
        /\ (pc = "top" /\ pc' = "sleep")
             => /\ stats_by_pid' = stats_by_pid
                /\ prev_by_pid' = prev_by_pid
                /\ hist' = hist ]_vars

\* a pid with a record and nonzero current cpu was tracked and skipped in
\* this pass
C5_Witness ==
    \E pid \in Pids :
        /\ pc \in {"pass", "sleep"}
        /\ pid \in tracked
        /\ pid \notin pending
        /\ pid \in DOMAIN stats_by_pid
        /\ Last(hist[pid]).t < now
        /\ stats_by_pid[pid].current_cpu # Zero

\* C6: no failed read of a pid's counters raises out of read_stat,
\* read_io_counters or the pass: main is never left by an exception.
C6_ReadFailureNeverRaises == pc # "crashed"

\* the values of metric m fed for pid so far, absent ones left out
RECURSIVE FedPresent(_, _, _)
FedPresent(pid, m, k) ==
    IF k = 0 THEN <<>>
    ELSE LET v == hist[pid][k].fed[m]
         IN  IF v = None THEN FedPresent(pid, m, k - 1)
             ELSE Append(FedPresent(pid, m, k - 1), v)

RECURSIVE SumSeq(_)
SumSeq(seq) == IF seq = <<>> THEN Zero ELSE RatAdd(SumSeq(SubSeq(seq, 1, Len(seq) - 1)), Last(seq))

\* C7: a record, once in the registry, stays in it and changes only when its
\* pid is read successfully; the final report has a row for every record,
\* with the aggregate the record holds.
C7_RegistryKeepsEntries ==
    /\ [][ \A pid \in DOMAIN stats_by_pid :
              /\ pid \in DOMAIN stats_by_pid'
              /\ hist'[pid] = hist[pid] => stats_by_pid'[pid] = stats_by_pid[pid] ]_vars
    /\ [](pc = "done" /\ ret # 2 =>
             \A pid \in DOMAIN stats_by_pid :
                 \E i \in 1..Len(report) :
                     /\ report[i].pid = pid
                     /\ report[i] = ReportRow(stats_by_pid[pid])
                     /\ report[i].cpu = fmt_triplet(as_tuple(stats_by_pid[pid].cpu)))

\* the report was printed two passes after the only read of a pid
C7_Witness ==
    \E pid \in Pids :
        /\ pc = "done"
        /\ ret = 0
        /\ Len(hist[pid]) = 1
        /\ hist[pid][1].t = 0
        /\ passes >= 3
        /\ clock >= 2
        /\ \E i \in 1..Len(report) : report[i].pid = pid

\* C8: add(None) changes no field; a stream and any rearrangement of it,
\* absent values dropped or inserted, leave the same minimum, maximum, count
\* and mean.
C8_AddOrderIndependent ==
    /\ acc_last.value = None => acc_last.after = acc_last.before
    /\ (stream = <<>> /\ stream2 = <<>>) =>
          /\ acc.minimum = acc2.minimum
          /\ acc.maximum = acc2.maximum
          /\ acc.count = acc2.count
          /\ as_tuple(acc)[3] = as_tuple(acc2)[3]

\* two different orders of three values, an absent one among them, were fed
C8_Witness ==
    /\ stream = <<>>
    /\ stream2 = <<>>
    /\ Len(fed) = 3
    /\ fed # fed2
    /\ \E i \in 1..Len(fed) : fed[i] = None
    /\ acc.count = 2
    /\ acc.minimum # acc.maximum
    /\ acc_last.value = None

\* C9: an accumulator with count 0 has minimum +inf, maximum -inf and
\* summarizes as (0,0,0); with count > 0 its minimum and maximum bound every
\* value added, total is their sum, and it summarizes as
\* (minimum, maximum, total/count).
C9_AccumulatorInvariant ==
    \A pid \in DOMAIN stats_by_pid : \A m \in {"cpu", "mem", "disk", "xfer"} :
        LET a    == stats_by_pid[pid][m]
            vals == FedPresent(pid, m, Len(hist[pid]))
        IN  /\ a.count = Len(vals)
            /\ a.count = 0 =>
                  /\ a.minimum = PosInf
                  /\ a.maximum = NegInf
                  /\ as_tuple(a) = <<Zero, Zero, Zero>>
            /\ a.count > 0 =>
                  /\ \A i \in 1..Len(vals) : RatLE(a.minimum, vals[i]) /\ RatLE(vals[i], a.maximum)
                  /\ a.total = SumSeq(vals)
                  /\ as_tuple(a) = <<a.minimum, a.maximum, Rat(a.total.n, a.total.d * a.count)>>

\* a record with an empty disk accumulator beside a cpu accumulator that
\* holds two different rates
C9_Witness ==
    \E pid \in DOMAIN stats_by_pid :
        /\ stats_by_pid[pid].disk.count = 0
        /\ stats_by_pid[pid].cpu.count = 2
        /\ stats_by_pid[pid].cpu.minimum # stats_by_pid[pid].cpu.maximum
        /\ stats_by_pid[pid].mem.count = 3

\* C10: while every pass has resolved the tracked set to empty the registry
\* is empty; main returns 1 and prints no row when the registry is empty at
\* the end, and returns 0 when it holds a record.
C10_NoDataOutcome ==
    /\ ~any_tracked => DOMAIN stats_by_pid = {}
    /\ (pc = "done" /\ ret # 2) =>
          IF DOMAIN stats_by_pid = {}
          THEN ret = 1 /\ report = <<>>
          ELSE ret = 0 /\ Len(report) = Cardinality(DOMAIN stats_by_pid)

\* a session of at least two passes, all with an empty tracked set, has ended
C10_Witness ==
    /\ pc = "done"
    /\ passes >= 2
    /\ ~any_tracked
    /\ ret = 1
    /\ report = <<>>

\* C11: with interval <= 0 main returns 2 before any pass: the tracked set
\* is never resolved, nothing is read, both tables stay empty and no report
\* is printed; and 2 is returned for no other reason.
C11_InvalidInterval ==
    /\ interval <= 0 =>
          /\ pc \in {"start", "done"}
          /\ pc = "done" => ret = 2
          /\ passes = 0
          /\ ~any_tracked
          /\ tracked = {} /\ pending = {}
          /\ \A pid \in Pids : hist[pid] = <<>>
          /\ stats_by_pid = <<>>
          /\ prev_by_pid = <<>>
          /\ report = <<>>
    /\ ret = 2 => interval <= 0

\* main has returned 2 for a negative interval
C11_Witness ==
    /\ pc = "done"
    /\ ret = 2
    /\ interval < 0
    /\ passes = 0

\* the positions of the sampling loop
InLoop == pc \in {"loop", "top", "pass", "sleep"}

\* C12: a signal can arrive at every position of the loop and only sets
\* STOP, which is never cleared; a pass in flight goes on to its end (every
\* tracked pid is reached before the sleep); at most one pass begins after
\* the flag is set; a loop test that finds the flag set leaves the loop, and
\* leaving the loop changes neither table and reports the registry as it is.
C12_CooperativeStop ==
    /\ [](/\ (InLoop /\ ~STOP) => ENABLED HandleSignal
          /\ late_passes <= 1
          /\ pc = "sleep" => pending = {}
          /\ pc = "pass" => pending # {}
          /\ (pc = "done" /\ ret = 0) =>
                /\ Len(report) = Cardinality(DOMAIN stats_by_pid)
                /\ \A i \in 1..Len(report) :
                      report[i] = ReportRow(stats_by_pid[report[i].pid]))
    /\ [][ /\ STOP => STOP'
           /\ STOP' # STOP =>
                 /\ pc' = pc /\ pending' = pending /\ tracked' = tracked
                 /\ stats_by_pid' = stats_by_pid /\ prev_by_pid' = prev_by_pid
                 /\ hist' = hist /\ passes' = passes /\ now' = now /\ clock' = clock
                 /\ ret' = ret /\ report' = report
           /\ (pc = "pass" /\ STOP) =>
                 /\ pc' \in {"pass", "sleep", "crashed"}
                 /\ pc' = "sleep" <=> (pc' # "crashed" /\ pending' = {})
           /\ (pc = "loop" /\ STOP) => (pc' = "done" /\ passes' = passes)
           /\ (InLoop /\ pc' = "done") =>
                 /\ stats_by_pid' = stats_by_pid
                 /\ prev_by_pid' = prev_by_pid
                 /\ hist' = hist
           /\ pc = "done" => UNCHANGED <<stats_by_pid, prev_by_pid, report, ret>> ]_vars

\* the flag was set between the loop test and the pass, the pass read a pid
\* and the report was printed
C12_Witness ==
    /\ pc = "done"
    /\ STOP
    /\ late_passes = 1
    /\ ret = 0
    /\ \E pid \in Pids : hist[pid] # <<>> /\ Last(hist[pid]).t = now

Carried(e) ==
    [cpu_ticks  |-> e.cpu_ticks,
     disk_bytes |-> IF e.io THEN e.disk ELSE IF e.prev = Missing THEN 0 ELSE e.prev.disk_bytes,
     xfer_bytes |-> IF e.io THEN e.xfer ELSE IF e.prev = Missing THEN 0 ELSE e.prev.xfer_bytes,
     timestamp  |-> e.t]

\* C14: after every successful stat read of a pid its stored previous sample
\* has the timestamp and cpu_ticks of that read, and the disk and transfer
\* bytes just read when the I/O read succeeded, else the bytes stored before
\* the pass (0 when nothing was stored); it stays so until the pid's next
\* successful read, which finds exactly that sample.
C14_CarryForward ==
    \A pid \in Pids :
        /\ pid \in DOMAIN prev_by_pid <=> hist[pid] # <<>>
        /\ hist[pid] # <<>> =>
              /\ prev_by_pid[pid] = Carried(Last(hist[pid]))
              /\ hist[pid][1].prev = Missing
        /\ \A k \in 2..Len(hist[pid]) : hist[pid][k].prev = Carried(hist[pid][k - 1])

\* the I/O read of a pid failed at a later time than its previous sample,
\* which held bytes read earlier
C14_Witness ==
    \E pid \in Pids :
        /\ Len(hist[pid]) >= 2
        /\ LET e == Last(hist[pid])
           IN  /\ ~e.io
               /\ e.prev.disk_bytes > 0
               /\ e.t > e.prev.timestamp
               /\ e.cpu_ticks # e.prev.cpu_ticks
               /\ prev_by_pid[pid].disk_bytes = e.prev.disk_bytes
               /\ prev_by_pid[pid].timestamp = e.t

\* C15: when the I/O read of a pid failed at every read up to and including
\* its first, the first read that does get I/O counters, at a later time,
\* records no disk or transfer rate taken against a baseline of zero: not
\* the whole cumulative counter divided by dt.
C15_NoZeroBaselineRate ==
    \A pid \in Pids : \A k \in 2..Len(hist[pid]) :
        LET e  == hist[pid][k]
            dt == e.t - e.prev.timestamp
        IN  (/\ e.io
             /\ \A j \in 1..(k - 1) : ~hist[pid][j].io
             /\ dt > 0
             /\ e.disk > 0 /\ e.xfer > 0)
            => /\ e.fed.disk # Rat(e.disk, dt)
               /\ e.fed.xfer # Rat(e.xfer, dt)

\* C16: the record of a pid carries the name and the parent pid of the
\* pid's latest successful read, while its pid and first_seen stay those of
\* its creation at the first read.
C16_NameAndParentRefreshed ==
    \A pid \in DOMAIN stats_by_pid :
        /\ stats_by_pid[pid].pid = pid
        /\ stats_by_pid[pid].first_seen = hist[pid][1].t
        /\ stats_by_pid[pid].name = Last(hist[pid]).name
        /\ stats_by_pid[pid].ppid = Last(hist[pid]).ppid

\* the part of C16 that the code keeps: pid and first_seen are those of the
\* record's creation
C16_IdentityKept ==
    \A pid \in DOMAIN stats_by_pid :
        /\ stats_by_pid[pid].pid = pid
        /\ stats_by_pid[pid].first_seen = hist[pid][1].t
        /\ stats_by_pid[pid].name = hist[pid][1].name
        /\ stats_by_pid[pid].ppid = hist[pid][1].ppid

\* C17: a successful read of a pid at a time not later than its stored
\* previous sample's timestamp leaves the cpu, disk and transfer
\* accumulators of its record as they were and feeds them nothing, sets the
\* three current rates to 0, adds the memory read to the memory accumulator
\* and sets current memory from it.
C17_NoRateWithoutTime ==
    [][ \A pid \in Pids :
          (/\ hist'[pid] # hist[pid]
           /\ pid \in DOMAIN prev_by_pid
           /\ now <= prev_by_pid[pid].timestamp)
          => LET r   == stats_by_pid[pid]
                 r2  == stats_by_pid'[pid]
                 e   == Last(hist'[pid])
                 mem == FromInt(e.rss_pages * page_size)
             IN  /\ r2.cpu = r.cpu /\ r2.disk = r.disk /\ r2.xfer = r.xfer
                 /\ e.fed.cpu = None /\ e.fed.disk = None /\ e.fed.xfer = None
                 /\ r2.current_cpu = Zero /\ r2.current_disk = Zero /\ r2.current_xfer = Zero
                 /\ r2.mem = add(r.mem, mem)
                 /\ r2.mem.count = r.mem.count + 1
                 /\ r2.current_mem = mem
                 /\ prev_by_pid'[pid].timestamp = now ]_vars

\* a pid was read twice at the same time, its counters higher and its
\* memory different at the second read
C17_Witness ==
    \E pid \in Pids :
        /\ Len(hist[pid]) = 2
        /\ LET e == hist[pid][2]
           IN  /\ e.t = e.prev.timestamp
               /\ e.cpu_ticks > e.prev.cpu_ticks
               /\ e.io
               /\ e.disk > e.prev.disk_bytes
               /\ e.rss_pages # hist[pid][1].rss_pages
        /\ stats_by_pid[pid].cpu.count = 0
        /\ stats_by_pid[pid].disk.count = 0
        /\ stats_by_pid[pid].mem.count = 2
        /\ stats_by_pid[pid].current_cpu = Zero

\* the cpu_ticks of pid never went down from one successful read to the next
TicksNeverDecrease(pid) ==
    \A k \in 2..Len(hist[pid]) : hist[pid][k - 1].cpu_ticks <= hist[pid][k].cpu_ticks

\* the ticks the cpu samples recorded for pid in its first k reads stand
\* for: cpu_pct / 100 * ticks_per_second * dt of each sample
RECURSIVE TicksAccounted(_, _)
TicksAccounted(pid, k) ==
    IF k = 0 THEN Zero
    ELSE LET e == hist[pid][k]
         IN  IF e.fed.cpu = None THEN TicksAccounted(pid, k - 1)
             ELSE RatAdd(TicksAccounted(pid, k - 1),
                         RatMul(RatDiv(e.fed.cpu, FromInt(100)),
                                FromInt(clk_tck * (e.t - e.prev.timestamp))))

\* C18: for a pid whose cpu_ticks never decrease and whose successful reads
\* are at strictly increasing times, the recorded cpu samples, each taken
\* as cpu_pct/100 * ticks_per_second * its dt, add up to the cpu_ticks of
\* the last read minus those of the first, whatever passes missed the pid
\* or its I/O counters in between; the samples are those of the accumulator.
C18_CpuDeltaConserved ==
    \A pid \in Pids :
        LET N == Len(hist[pid]) IN
        (N >= 1 /\ Increasing(pid) /\ TicksNeverDecrease(pid)) =>
            /\ TicksAccounted(pid, N) = FromInt(hist[pid][N].cpu_ticks - hist[pid][1].cpu_ticks)
            /\ stats_by_pid[pid].cpu.count = Len(FedPresent(pid, "cpu", N))
            /\ stats_by_pid[pid].cpu.total = SumSeq(FedPresent(pid, "cpu", N))

\* a pid was read at t=0 and, after a pass at t=1 that missed it, at t=2
\* without I/O counters, its ticks going from 50 to 150: one sample of 50%
C18_Witness ==
    \E pid \in Pids :
        /\ passes = 3
        /\ Len(hist[pid]) = 2
        /\ [k \in 1..2 |-> hist[pid][k].cpu_ticks] = <<50, 150>>
        /\ [k \in 1..2 |-> hist[pid][k].t] = <<0, 2>>
        /\ ~hist[pid][2].io
        /\ stats_by_pid[pid].cpu.count = 1
        /\ stats_by_pid[pid].cpu.total = FromInt(50)

\* C19: every record has disk.count = xfer.count <= cpu.count <=
\* mem.count - 1, and mem.count is the number of passes in which its pid was
\* read successfully (a pass reads a pid at most once).
C19_CountOrder ==
    \A pid \in DOMAIN stats_by_pid :
        LET r == stats_by_pid[pid]
        IN  /\ r.disk.count = r.xfer.count
            /\ r.xfer.count <= r.cpu.count
            /\ r.cpu.count <= r.mem.count - 1
            /\ r.mem.count = Len(hist[pid])
            /\ r.mem.count <= passes
            /\ r.disk.count = Cardinality({k \in 1..Len(hist[pid]) : hist[pid][k].fed.disk # None})

\* both inequalities are strict: three reads of a pid, one at the time of
\* the read before it, none that gave a disk rate
C19_Witness ==
    \E pid \in DOMAIN stats_by_pid :
        /\ stats_by_pid[pid].mem.count = 3
        /\ stats_by_pid[pid].cpu.count = 1
        /\ stats_by_pid[pid].disk.count = 0
        /\ stats_by_pid[pid].xfer.count = 0
        /\ \E k \in 1..3 : hist[pid][k].io

\* C20: after every completed pass (and between the iterations of a pass)
\* the registry and the previous-sample table have the same pids as keys,
\* those read successfully so far, and for each of them the previous
\* sample's timestamp is the record's last_seen, the time of the latest
\* successful read, and first_seen <= last_seen.
C20_TablesAgree ==
    /\ DOMAIN stats_by_pid = DOMAIN prev_by_pid
    /\ DOMAIN stats_by_pid = {pid \in Pids : hist[pid] # <<>>}
    /\ \A pid \in DOMAIN stats_by_pid :
          /\ prev_by_pid[pid].timestamp = stats_by_pid[pid].last_seen
          /\ stats_by_pid[pid].last_seen = Last(hist[pid]).t
          /\ stats_by_pid[pid].first_seen <= stats_by_pid[pid].last_seen
          /\ stats_by_pid[pid].last_seen <= now

\* a pass is over with both pids in both tables, one read again after its
\* first read, the other read once, in an earlier pass
C20_Witness ==
    /\ pc = "sleep"
    /\ DOMAIN stats_by_pid = Pids
    /\ DOMAIN prev_by_pid = Pids
    /\ \E pid \in Pids : stats_by_pid[pid].first_seen < stats_by_pid[pid].last_seen
    /\ \E pid \in Pids : /\ stats_by_pid[pid].first_seen = stats_by_pid[pid].last_seen
                         /\ stats_by_pid[pid].last_seen < now

====
